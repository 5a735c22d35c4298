----------------------------- MODULE Retrieval -----------------------------
(***************************************************************************)
(* HybridSearchService.search, RerankerService.rerank and the evidence     *)
(* decision on what they return (hybrid_search.py, reranker.py,            *)
(* evidence_sufficiency.py): three calls, each with a transaction of its   *)
(* own on the row of the retrieval run, so that the program may stop       *)
(* between any two.  Each writes only where it is asked to: the search by  *)
(* persist_run, the other two when they are given a unit of work and the   *)
(* id of a run.                                                            *)
(*                                                                         *)
(* What the two searches find is chosen at the start: how the text matches *)
(* a chunk and how similar its embedding is.  Scores of the searches are   *)
(* in thousandths, final scores in ten millionths, where the arithmetic is *)
(* exact but for the quotients of full-text scores.                        *)
(***************************************************************************)
EXTENDS EvidenceSufficiency

CONSTANTS
  Chunks,        \* numbers, in the order of reference and id
  Signals,       \* what the searches may find of a chunk
  Queries,       \* a page (limit, offset), how many terms, and who writes the run
  MaxCandidates, \* how many results are given to the reranker
  RerankScores,  \* the scores a reranker may give, in thousandths
  NoScore

VARIABLES
  query,
  found,    \* what the searches find of each chunk
  stage,
  ranking,  \* the results handed from one call to the next
  run,      \* the row of the run and the rows of its results, if they are written
  decision

vars == <<query, found, stage, ranking, run, decision>>

-----------------------------------------------------------------------------
\* FullTextSearchService._rank_rows: an equal reference, a reference that begins
\* so, a content with the text, a content with some of its terms
Exact(match) == CASE match = "reference" -> 1000 [] match = "prefix" -> 150 [] OTHER -> 0

\* a text counts more in a short content; terms count each, without a limit
FullText(f) ==
  CASE f.match = "reference" -> 1000000
    [] f.match = "prefix"    -> 150000
    [] f.match = "content"   -> 25000 + (1000 * query.terms) \div f.words
    [] f.match = "word"      -> 1000 * f.hits
    [] f.match = "none"      -> 0

Candidates == {c \in Chunks : found[c].match # "none" \/ found[c].similarity # NoScore}

\* _normalize_positive
Normalized(value, maximum) ==
  IF value <= 0 \/ maximum <= 0 THEN 0 ELSE (1000 * value) \div maximum

\* _normalize_vector: a chunk without embedding counts as the opposite
Similarity(similarity) == IF similarity = NoScore THEN 0 ELSE (similarity + 1000) \div 2

MaxExact    == Max({Exact(found[c].match) : c \in Candidates} \union {0})
MaxFullText == Max({FullText(found[c]) : c \in Candidates} \union {0})

Hybrid(c) ==
  100 * (35 * Normalized(Exact(found[c].match), MaxExact)
       + 25 * Normalized(FullText(found[c]), MaxFullText)
       + 30 * Similarity(found[c].similarity)
       + 10 * 200 * found[c].reliability)

\* the keys of the sort, best first; equal scores fall to reference and id
HybridKey(c) ==
  <<Hybrid(c), Exact(found[c].match), FullText(found[c]),
    Similarity(found[c].similarity), c>>

Before(key1, key2) ==
  \E i \in DOMAIN key1 : key1[i] > key2[i] /\ \A j \in 1..(i - 1) : key1[j] = key2[j]

Ranked(entries) ==
  [i \in DOMAIN entries |-> [entries[i] EXCEPT !.rank = i]]

\* the members of a set in the order of their keys
Sorted(members, key) ==
  CHOOSE s \in SetToSeqs(members) :
    \A i, j \in DOMAIN s : i < j => Before(key[s[i]], key[s[j]])

HybridRanking ==
  LET order == Sorted(Candidates, [c \in Candidates |-> HybridKey(c)])
  IN  Ranked([i \in DOMAIN order |->
                [chunk |-> order[i], hybrid |-> Hybrid(order[i]), reranker |-> NoScore,
                 final |-> Hybrid(order[i]), rank |-> 0]])

Page(results) ==
  SubSeq(results, query.offset + 1, Min({query.offset + query.limit, Len(results)}))

Row(entry) == [chunk |-> entry.chunk, rank |-> entry.rank, reranker |-> entry.reranker,
               final |-> entry.final]

NoRun == [sufficient |-> FALSE, rows |-> {}]

\* an error of the vector search, a refused commit, a crash
Fail ==
  /\ stage \notin {"judged", "failed"}
  /\ stage' = "failed"
  /\ UNCHANGED <<query, found, ranking, run, decision>>

Search ==
  /\ stage = "new"
  /\ stage' = "searched"
  /\ ranking' = Page(HybridRanking)
  /\ run' = IF "search" \in query.writers
            THEN [sufficient |-> ranking' # <<>>, rows |-> {Row(e) : e \in ToSet(ranking')}]
            ELSE run
  /\ UNCHANGED <<query, found, decision>>

-----------------------------------------------------------------------------
\* RerankerService._fallback: disabled, not allowed, an error or late
KeepRanking ==
  /\ stage = "searched"
  /\ stage' = "reranked"
  /\ UNCHANGED <<query, found, ranking, run, decision>>

\* 0.70 hybrid + 0.30 reranker, where there is a score
Blended(entry, scores) ==
  IF entry.chunk \notin DOMAIN scores \/ scores[entry.chunk] = NoScore
  THEN entry
  ELSE [entry EXCEPT !.reranker = scores[entry.chunk],
                     !.final = (7 * entry.hybrid) \div 10 + 3000 * scores[entry.chunk]]

RerankKey(e) ==
  <<e.final, IF e.reranker = NoScore THEN 0 ELSE e.reranker, e.hybrid, e.chunk>>

Reranking(scores) ==
  LET entries == {Blended(e, scores) : e \in ToSet(ranking)}
  IN  Ranked(Sorted(entries, [e \in entries |-> RerankKey(e)]))

\* seeded fault: the scores are stored, the ranks stay
RowsRescored(rows, results) ==
  {IF \E e \in ToSet(results) : e.chunk = row.chunk
   THEN [Row(CHOOSE e \in ToSet(results) : e.chunk = row.chunk) EXCEPT !.rank = row.rank]
   ELSE row : row \in rows}

\* _persist_scores, which leaves a row without a result alone
RowsReranked(rows, results) ==
  {IF \E e \in ToSet(results) : e.chunk = row.chunk
   THEN Row(CHOOSE e \in ToSet(results) : e.chunk = row.chunk)
   ELSE row : row \in rows}

Rerank ==
  /\ stage = "searched"
  /\ stage' = "reranked"
  /\ LET given == {ranking[i].chunk : i \in 1..Min({MaxCandidates, Len(ranking)})}
     IN  \E scores \in [given -> RerankScores \union {NoScore}] : ranking' = Reranking(scores)
  /\ run' = IF {"search", "reranker"} \subseteq query.writers
            THEN [run EXCEPT !.rows = RowsReranked(@, ranking')]
            ELSE run
  /\ UNCHANGED <<query, found, decision>>

-----------------------------------------------------------------------------
\* evaluate_reranked; what the searches return is eligible, and nothing in the
\* retrieval services ever sets a conflict signal or a stance
Candidate(entry) ==
  LET f == found[entry.chunk]
  IN  [score |-> entry.final, reliability |-> (f.reliability * Unit) \div 5,
       source |-> f.source, school |-> f.school, cited |-> f.cited, eligible |-> TRUE,
       signal |-> FALSE, group |-> NoGroup, stance |-> NoGroup]

\* _persist_run_flag, which the orchestrator never lets write: it passes no run id
Flagged(status) ==
  IF {"search", "judgement"} \subseteq query.writers
  THEN [run EXCEPT !.sufficient = status = "SUFFICIENT"]
  ELSE run

Judge ==
  /\ stage = "reranked"
  /\ stage' = "judged"
  /\ \E school \in {NoSchool} \union {found[c].school : c \in Chunks} :
       decision' = Status([i \in DOMAIN ranking |-> Candidate(ranking[i])], school)
  /\ run' = Flagged(decision')
  /\ UNCHANGED <<query, found, ranking>>

\* no more terms are found than the query has
Possible == \A c \in Chunks : found[c].hits <= query.terms

Init ==
  /\ query \in Queries
  /\ found \in [Chunks -> Signals]
  /\ Possible
  /\ stage = "new"
  /\ ranking = <<>>
  /\ run = NoRun
  /\ decision = "unknown"

Next == Search \/ KeepRanking \/ Rerank \/ Judge \/ Fail

Spec == Init /\ [][Next]_vars

-----------------------------------------------------------------------------
(* Properties.                                                             *)

\* Each chunk is handed on once, best first and numbered without a gap, and the
\* stored run shows what was handed on, although the reranking is stored by
\* another transaction than the search.  Where the reranker does not write, the
\* run keeps the chunks it was given, without a score of its own.
StoredAsServed ==
  /\ \A i, j \in DOMAIN ranking : i < j =>
       /\ ranking[i].chunk # ranking[j].chunk
       /\ ranking[i].final >= ranking[j].final
       /\ ranking[j].rank = ranking[i].rank + (j - i)
  /\ stage \in {"searched", "reranked", "judged"} =>
       /\ "search" \notin query.writers => run = NoRun
       /\ {"search", "reranker"} \subseteq query.writers =>
            run.rows = {Row(e) : e \in ToSet(ranking)}
       /\ "search" \in query.writers /\ "reranker" \notin query.writers =>
            /\ {row.chunk : row \in run.rows} = {e.chunk : e \in ToSet(ranking)}
            /\ \A row \in run.rows : row.reranker = NoScore

\* A chunk whose text, embedding and source are all no worse is not ranked
\* behind for them: normalising by the best match keeps the order.  A better
\* kind of match is a better score only up to 25 terms: beyond, single terms of
\* the query may count more than the query itself.
MatchRank(match) ==
  CASE match = "reference" -> 4 [] match = "prefix" -> 3 [] match = "content" -> 2
    [] match = "word" -> 1 [] match = "none" -> 0

BetterMatch(f, g) ==
  \/ f.match = g.match /\ FullText(f) >= FullText(g)
  \/ MatchRank(f.match) > MatchRank(g.match) /\ query.terms <= 25

Dominates(c, d) ==
  /\ BetterMatch(found[c], found[d])
  /\ found[d].similarity # NoScore =>
       found[c].similarity # NoScore /\ found[c].similarity >= found[d].similarity
  /\ found[c].reliability >= found[d].reliability

BetterIsAhead ==
  stage = "new" => \A c, d \in Candidates : Dominates(c, d) => Hybrid(c) >= Hybrid(d)

\* A reranker that keeps to scores of at most 1 cannot make evidence of what the
\* searches found too weak: something of a hybrid score of 4/7 is behind every
\* sufficient decision, and at least two results with a citation.
SufficiencyIsEarned ==
  decision = "SUFFICIENT" =>
    /\ \E e \in ToSet(ranking) : 7 * e.hybrid >= 4 * Unit
    /\ Cardinality({e.chunk : e \in ToSet(ranking)}) >= 2
    /\ \A e \in ToSet(ranking) : found[e.chunk].cited

\* Once judged, the stored run says what was decided, where the judgement was
\* given the run; where it was not, the run goes on saying that anything was found.
FlagIsDecision ==
  stage = "judged" =>
    IF {"search", "judgement"} \subseteq query.writers
    THEN run.sufficient = (decision = "SUFFICIENT")
    ELSE run.sufficient = (run.rows # {})

=============================================================================
