-------------------------- MODULE MCAnswerPipeline --------------------------
(* Small instances for TLC of what an answer goes through: the searches,   *)
(* the decision on their evidence, the calls of the providers and the      *)
(* workflow around them.  A behaviour keeps to the part it starts with.    *)
EXTENDS AnswerWorkflow, Integers, FiniteSets, SequencesExt

CONSTANTS
  q1, q2, key1,                                         \* AnswerWorkflow
  noSchool, noGroup, noScore, missing, none, s1, blank,
  Chunks, Signals, Queries, MaxCandidates, RerankScores, \* Retrieval
  Samples, MaxSample,                                   \* EvidenceSufficiency
  Tokens, Packs, Drafts, OtherClaims,                   \* CitationVerification
  Inputs, BatchSize, EmbeddingRetries,                  \* Embeddings
  AdapterRetries, MaxLines                              \* LlmAdapter

VARIABLES
  subject,
  query, found, stage, ranking, retrieved, decision,
  sample,
  texts, embedding, vectors, attempt, posts, honest,
  mode, call, tried, failures, lines, yielded

retrievalVars == <<query, found, stage, ranking, retrieved, decision>>
embeddingVars == <<texts, embedding, vectors, attempt, posts, honest>>
adapterVars   == <<mode, call, tried, failures, lines, yielded>>
pipelineVars  == <<subject, sample, vars, retrievalVars, embeddingVars, adapterVars>>

Judgement  == INSTANCE EvidenceSufficiency
               WITH Unit <- 100, NoSchool <- noSchool, NoGroup <- noGroup

Search    == INSTANCE Retrieval
               WITH run <- retrieved, Unit <- 10000000, NoSchool <- noSchool,
                    NoGroup <- noGroup, NoScore <- noScore
Citations == INSTANCE CitationVerification WITH None <- none
Batches   == INSTANCE Embeddings
               WITH stage <- embedding, Blank <- blank, MaxRetries <- EmbeddingRetries,
                    Missing <- missing
Adapter   == INSTANCE LlmAdapter
               WITH stage <- call, attempt <- tried, MaxRetries <- AdapterRetries

ASSUME RetrievalAssumption ==
  /\ Chunks \subseteq Int /\ IsFiniteSet(Chunks) /\ noScore \notin Int
  /\ \A f \in Signals :
       /\ f.match \in {"reference", "prefix", "content", "word", "none"}
       /\ f.hits \in Nat /\ f.words \in Nat \ {0}
       /\ f.similarity \in (-1000)..1000 \union {noScore} /\ f.reliability \in Nat
  /\ \A q \in Queries : q.limit \in Nat /\ q.offset \in Nat /\ q.terms \in Nat
  /\ MaxCandidates \in Nat /\ RerankScores \subseteq 0..1000

ASSUME EvidenceAssumption ==
  MaxSample \in Nat /\ \A c \in Samples : c.score \in Int /\ c.reliability \in Int

ASSUME VerificationAssumption ==
  /\ \A pack \in Packs : \A field \in {"active", "published", "registered"} :
       field \in DOMAIN pack /\ [pack EXCEPT ![field] = FALSE] # none
  /\ \A draft \in Drafts :
       /\ DOMAIN draft = {"text", "prohibited", "citations", "words", "quote", "claims"}
       /\ draft.claims \in Seq(ToSet(draft.claims))
       /\ \A claim \in ToSet(draft.claims) :
            /\ DOMAIN claim = {"id", "text", "tokens", "words", "quote", "school", "reference"}
            /\ claim.tokens \in Seq(ToSet(claim.tokens)) /\ IsFiniteSet(claim.words)

ASSUME CallsAssumption ==
  /\ \A given \in Inputs : given \in Seq(ToSet(given)) /\ missing \notin ToSet(given)
  /\ BatchSize \in Nat \ {0} /\ EmbeddingRetries \in Nat
  /\ AdapterRetries \in Nat /\ MaxLines \in Nat

-----------------------------------------------------------------------------
(* The values of the small instances.                                      *)

OneRequest  == {q1}
TwoRequests == {q1, q2}
OneKey      == {key1}
SharedKey   == [q \in Requests |-> key1]

\* a chunk the searches find, of some words, a few or many of which the query has
Matched(match, hits, words, similarity, reliability, cited) ==
  [match |-> match, hits |-> hits, words |-> words, similarity |-> similarity,
   reliability |-> reliability, source |-> s1, school |-> "hanafi", cited |-> cited]
Profile(match, similarity, reliability, cited) ==
  Matched(match, 2, 8, similarity, reliability, cited)
Profiles ==
  {Profile("reference", 900, 5, TRUE), Profile("prefix", noScore, 4, TRUE),
   Profile("content", 600, 3, TRUE), Profile("content", noScore, 5, FALSE),
   Profile("none", 800, 4, TRUE), Profile("none", -400, 2, TRUE),
   Profile("none", noScore, 1, TRUE), Profile("word", 0, 3, TRUE),
   Matched("word", 30, 60, noScore, 4, TRUE)}

\* a whole page of three results, and the second page of two; the run written by
\* nobody, by some or by all, for a short and for a long query
Page(limit, offset, terms, writers) ==
  [limit |-> limit, offset |-> offset, terms |-> terms, writers |-> writers]
TwoPages ==
  {Page(3, 0, 2, writers) : writers \in {{}, {"search"}, {"search", "reranker"},
                                       {"search", "reranker", "judgement"}}}
  \union {Page(2, 1, 40, writers) : writers \in {{"search", "judgement"}, {"search", "reranker"}}}

\* texts of a caller: t or a blank at place t, three places at most
Given == {g \in UNION {[1..n -> {blank} \union 1..n] : n \in 1..3} :
            \A i \in DOMAIN g : g[i] \in {blank, i}}

\* candidates around every threshold, with and without a flaw or a stance
Graded(score, reliability, cited, eligible, school) ==
  [score |-> score, reliability |-> reliability, source |-> s1, school |-> school,
   cited |-> cited, eligible |-> eligible, signal |-> FALSE, group |-> noGroup,
   stance |-> noGroup]
Taking(score, stance) ==
  [Graded(score, 60, TRUE, TRUE, "multi") EXCEPT !.group = "ruling", !.stance = stance]
GradedSamples ==
  {Graded(score, 60, TRUE, TRUE, school) :
     score \in {44, 45, 55, 69, 70, 100}, school \in {"multi", "hanafi"}}
  \union {Graded(70, 59, TRUE, TRUE, "multi"), Graded(70, 60, FALSE, TRUE, "multi"),
          Graded(70, 60, TRUE, FALSE, "multi"), Taking(70, "for"), Taking(45, "against"),
          [Graded(45, 60, TRUE, TRUE, "multi") EXCEPT !.signal = TRUE]}

\* two citations the candidates may bring, the second one perhaps without a pack
Pack(words, passages, school) ==
  [words |-> words, passages |-> passages, school |-> school, reference |-> {"r", "s"},
   active |-> TRUE, published |-> TRUE, registered |-> TRUE]
SomePacks ==
  {Pack({1}, {"a"}, "hanafi"), Pack({1, 2}, {"b"}, "shafii"), Pack({}, {"a"}, "general"),
   Pack({2}, {}, none), [Pack({1}, {"a"}, "hanafi") EXCEPT !.active = FALSE],
   [Pack({1}, {"a"}, none) EXCEPT !.reference = {}]}

Claim(id, tokens, words, quote, school, reference) ==
  [id |-> id, text |-> TRUE, tokens |-> tokens, words |-> words, quote |-> quote,
   school |-> school, reference |-> reference]
Claims ==
  {Claim("c1", tokens, 1..n, quote, school, reference) :
     tokens \in {<<>>, <<1>>, <<2>>, <<1, 2>>, <<3>>}, n \in {0, 4, 8, 9},
     quote \in {none, "a"}, school \in {none, "hanafi"}, reference \in {{}, {"r"}, {"x"}}}
SecondClaims ==
  {Claim("c2", tokens, 1..4, none, school, {}) :
     tokens \in {<<1>>, <<2>>, <<3>>}, school \in {none, "hanafi", "general"}}
  \union {Claim("c1", <<1>>, 1..4, none, none, {})}

Draft(text, citations, claims) ==
  [text |-> text, prohibited |-> FALSE, citations |-> citations, words |-> 1..8,
   quote |-> none, claims |-> claims]
SomeDrafts ==
  {Draft("given", <<1>>, <<claim>>) : claim \in Claims}
  \union {Draft(text, citations, <<>>) :
            text \in {"given", "partly", "blank"}, citations \in {<<>>, <<1>>, <<1, 2>>, <<3>>}}
  \union {[Draft("given", <<1>>, <<>>) EXCEPT !.prohibited = TRUE]}

-----------------------------------------------------------------------------
PipelineInit ==
  /\ subject \in {"answer", "retrieval", "evidence", "verification", "embeddings", "adapter"}
  /\ Init
  /\ Search!Init
  /\ subject # "retrieval" =>
       /\ query = CHOOSE q \in Queries : TRUE
       /\ found = [c \in Chunks |-> CHOOSE f \in Signals : TRUE]
  /\ \/ subject = "evidence" /\ sample \in UNION {[1..n -> Samples] : n \in 0..MaxSample}
     \/ /\ subject = "verification"
        /\ \E draft \in Drafts : \E context \in [Tokens -> Packs \union {none}] :
             sample = [draft |-> draft, context |-> context]
     \/ subject \notin {"evidence", "verification"} /\ sample = <<>>
  /\ Batches!Init
  /\ subject # "embeddings" => texts = CHOOSE given \in Inputs : TRUE
  /\ Adapter!Init
  /\ subject # "adapter" => mode = "generate"

PipelineNext ==
  /\ UNCHANGED <<subject, sample>>
  /\ \/ /\ subject = "answer" /\ Next
        /\ UNCHANGED <<retrievalVars, embeddingVars, adapterVars>>
     \/ /\ subject = "retrieval" /\ Search!Next
        /\ UNCHANGED <<vars, embeddingVars, adapterVars>>
     \/ /\ subject = "embeddings" /\ Batches!Next
        /\ UNCHANGED <<vars, retrievalVars, adapterVars>>
     \/ /\ subject = "adapter" /\ Adapter!Next
        /\ UNCHANGED <<vars, retrievalVars, embeddingVars>>

PipelineSpec ==
  /\ PipelineInit
  /\ [][PipelineNext]_pipelineVars
  /\ Fairness

-----------------------------------------------------------------------------
\* What the searches found is ranked as its signals say, and handed on and stored
\* alike by whoever writes the run; its flag is the decision, where the judgement is
\* given the run, and else what the search set (Retrieval).
RetrievalIsKept ==
  subject = "retrieval" => Search!StoredAsServed /\ Search!BetterIsAhead /\ Search!FlagIsDecision

\* Sufficient evidence was found and not made by the reranker; better candidates
\* never lower its status, and no candidate hides a conflict or a flaw of
\* another (Retrieval, EvidenceSufficiency).  No citation that was withdrawn is
\* behind a verified claim, and no claim makes up for another
\* (CitationVerification).
EvidenceIsEarned ==
  /\ subject = "retrieval" => Search!SufficiencyIsEarned
  /\ subject = "evidence" =>
       \A school \in {noSchool, "hanafi", "shafii"} :
         /\ Judgement!BetterIsNoWorse(sample, Samples, school)
         /\ Judgement!FlawsStay(sample, Samples, school)
  /\ subject = "verification" =>
       /\ \A requested \in {none, "hanafi"}, requirePacks \in BOOLEAN :
            /\ Citations!WithdrawalIsNoticed(sample.draft, sample.context, requested, requirePacks)
            /\ Citations!ClaimsStandAlone(sample.draft, OtherClaims, sample.context, requested,
                                          requirePacks)
       /\ \A claim \in ToSet(sample.draft.claims) :
            Citations!EvidenceAddsUp(claim, sample.context)

\* Over retries, batches and broken lines every vector and every line of text is
\* in its place, and a failure is given up within the attempts (Embeddings,
\* LlmAdapter).
CallsKeepTheirPlaces ==
  /\ subject = "embeddings" => Batches!VectorsFitTexts /\ Batches!PostsBounded
  /\ subject = "adapter"    => Adapter!GenerateGivesUp /\ Adapter!StreamInOrder

=============================================================================
