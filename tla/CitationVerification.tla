------------------------ MODULE CitationVerification ------------------------
(***************************************************************************)
(* CitationVerificationAnswerVerifier and the deterministic checks of      *)
(* CitationVerificationEngine (citation_verification.py).                  *)
(*                                                                         *)
(* context maps every token the candidates of an answer allow to its       *)
(* evidence pack, None when the candidate brought none; a pack is a record *)
(* of what the candidate says of the citation, and not read again; a token *)
(* that two candidates bring, which is refused, is left out.  Texts        *)
(* are sets: of the words that are compared, of the passages that may be   *)
(* quoted, of the parts of a reference ({} where there is none).  The text *)
(* of a draft is "given", "partly" (no summary, or an empty answer) or     *)
(* "blank" (an answer of white space); it cites tokens by itself and in    *)
(* the claims it states.  Signals of a model are never used.               *)
(***************************************************************************)
EXTENDS Integers, FiniteSets, SequencesExt

CONSTANTS None

GeneralSchools == {"general", "multi", "unknown"}

\* in hundredths
MinSupportedOverlap == 25
MinPartialOverlap   == 12

\* equal, or one is contained in the other
ReferenceFits(declared, canonical) ==
  /\ canonical # {}
  /\ declared \subseteq canonical \/ canonical \subseteq declared

TokenFits(token, claim, context) ==
  /\ token \in DOMAIN context /\ context[token] # None
  /\ context[token].registered /\ context[token].active /\ context[token].published
  /\ ReferenceFits(claim.reference, context[token].reference)

Cited(claim, context) == {context[token] : token \in ToSet(claim.tokens)}

QuoteFits(claim, packs) ==
  claim.quote = None \/ \E pack \in packs : claim.quote \in pack.passages

\* the words of the claim that any of the packs has
Overlap(claim, packs) ==
  Cardinality(claim.words \intersect UNION {pack.words : pack \in packs})

Support(claim, packs) ==
  LET all == Cardinality(claim.words)
      Reaches(share) == all > 0 /\ 100 * Overlap(claim, packs) >= share * all
  IN  IF Reaches(MinSupportedOverlap)    THEN "supported"
      ELSE IF Reaches(MinPartialOverlap) THEN "partial"
                                         ELSE "unsupported"

\* the school a claim declares comes before the one that was asked for
SchoolFits(claim, packs, requested) ==
  LET target  == IF claim.school = None THEN requested ELSE claim.school
      schools == {pack.school : pack \in packs} \ {None}
  IN  \/ target \in GeneralSchools \union {None}
      \/ target \in schools
      \/ schools \subseteq GeneralSchools
      \/ schools \intersect GeneralSchools # {}

ClaimStatus(claim, context, requested) ==
  LET packs   == Cited(claim, context)
      support == Support(claim, packs)
  IN  IF claim.tokens = <<>> THEN "unverifiable"
      ELSE IF \E token \in ToSet(claim.tokens) : ~ TokenFits(token, claim, context)
           THEN "invalid_citation"
      ELSE IF \/ ~ QuoteFits(claim, packs)
              \/ support = "supported" /\ ~ SchoolFits(claim, packs, requested)
           THEN "unsupported"
           ELSE support

\* a partial claim needs a revision even if not all have to be supported
Overall(statuses) ==
  IF statuses = {}                    THEN "failed"
  ELSE IF statuses = {"supported"}    THEN "verified"
                                      ELSE "needs_revision"

\* the claims with a text, or else the whole answer as one claim
ClaimsFromDraft(draft) ==
  LET stated[i \in 0..Len(draft.claims)] ==
        IF i = 0 THEN <<>>
        ELSE IF draft.claims[i].text THEN Append(stated[i - 1], draft.claims[i])
                                     ELSE stated[i - 1]
  IN  IF stated[Len(draft.claims)] # <<>> THEN stated[Len(draft.claims)]
      ELSE <<[id |-> "claim-1", text |-> draft.text # "blank", tokens |-> draft.citations,
              words |-> draft.words, quote |-> draft.quote, school |-> None,
              reference |-> {}]>>

\* _validate_request, which no caller catches
Refused(claims) ==
  \/ \E i, j \in DOMAIN claims : i # j /\ claims[i].id = claims[j].id
  \/ \E claim \in ToSet(claims) : ~ claim.text

TextFits(draft) == draft.text = "given" /\ ~ draft.prohibited /\ draft.citations # <<>>

\* without any evidence pack the tokens of the draft only have to be allowed
WithoutEvidence(draft, context) ==
  IF TextFits(draft) /\ ToSet(draft.citations) \subseteq DOMAIN context
  THEN "verified" ELSE "needs_revision"

\* CitationVerificationEngine.verify
EngineStatus(claims, context, requested) ==
  IF Refused(claims) THEN "CitationVerificationError"
  ELSE Overall({ClaimStatus(claim, context, requested) : claim \in ToSet(claims)})

\* CitationVerificationAnswerVerifier.verify; where packs are required and none
\* came, no claim is supported
Verify(draft, context, requested, requirePacks) ==
  LET status == EngineStatus(ClaimsFromDraft(draft), context, requested)
  IN  IF ~ requirePacks /\ \A token \in DOMAIN context : context[token] = None
      THEN WithoutEvidence(draft, context)
      ELSE IF status = "verified" /\ ~ TextFits(draft) THEN "needs_revision"
                                                        ELSE status

-----------------------------------------------------------------------------
(* Properties of a draft, the evidence it was written from and the school  *)
(* that was asked for.                                                     *)

Cites(draft, token) ==
  \E claim \in ToSet(ClaimsFromDraft(draft)) : token \in ToSet(claim.tokens)

\* The candidates say of every cited token that it may be cited: a citation that
\* is withdrawn, or whose version is hidden, keeps every answer that rests on it
\* from being verified, whatever else the claims cite, and no other answer.
WithdrawalIsNoticed(draft, context, requested, requirePacks) ==
  \A token \in {t \in DOMAIN context : context[t] # None} :
    \A field \in {"active", "published", "registered"} :
      LET withdrawn == [context EXCEPT ![token] = [@ EXCEPT ![field] = FALSE]]
          verdict   == Verify(draft, withdrawn, requested, requirePacks)
      IN  IF Cites(draft, token) THEN verdict # "verified"
          ELSE verdict = Verify(draft, context, requested, requirePacks)

\* No claim makes up for another: a draft is verified when it would be with each
\* of its claims alone.
ClaimsStandAlone(draft, others, context, requested, requirePacks) ==
  \A other \in others :
    LET Of(claims) == Verify([draft EXCEPT !.claims = claims], context, requested, requirePacks)
    IN  /\ draft.claims # <<>> /\ other.text
        /\ \A claim \in ToSet(draft.claims) : claim.text /\ claim.id # other.id
        => (Of(Append(draft.claims, other)) = "verified")
              = (Of(draft.claims) = "verified" /\ Of(<<other>>) = "verified")

\* A claim that cites one more sound citation keeps its support, as long as no
\* school is asked for: quotes and words are looked for in all of them.
EvidenceAddsUp(claim, context) ==
  \A token \in DOMAIN context :
    LET more == [claim EXCEPT !.tokens = Append(@, token)]
    IN  /\ claim.school = None /\ TokenFits(token, claim, context)
        /\ ClaimStatus(claim, context, None) \in {"supported", "partial"}
        => ClaimStatus(more, context, None) \in {"supported", ClaimStatus(claim, context, None)}

=============================================================================
