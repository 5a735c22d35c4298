------------------------ MODULE EvidenceSufficiency ------------------------
(***************************************************************************)
(* EvidenceSufficiencyService.evaluate (evidence_sufficiency.py): the      *)
(* status of a sequence of candidates under the default thresholds.  A     *)
(* candidate is a record of its score and reliability (Unit stands for     *)
(* 1.0), its source, school, conflict group and stance, whether it signals *)
(* a conflict, whether its citation is complete and its licence eligible.  *)
(* The optional model's signal is never authoritative and left out.        *)
(***************************************************************************)
EXTENDS Integers, FiniteSets, FiniteSetsExt, SequencesExt

CONSTANTS Unit, NoSchool, NoGroup

\* EvidenceSufficiencyThresholds
MinSufficientResults == 2
MinPartialResults    == 1
MinSufficientTop     == (70 * Unit) \div 100
MinPartialTop        == (45 * Unit) \div 100
MinSufficientAverage == (55 * Unit) \div 100
MinReliability       == (60 * Unit) \div 100
MinDistinctSources   == 1

TopScore(candidates) == Max({c.score : c \in ToSet(candidates)})

SumOfScores(candidates) ==
  LET sum[i \in 0..Len(candidates)] == IF i = 0 THEN 0 ELSE sum[i - 1] + candidates[i].score
  IN  sum[Len(candidates)]

Conflicting(candidates) ==
  LET all == ToSet(candidates)
  IN  \/ \E c \in all : c.signal
      \/ \E c, d \in all :
           /\ c.group = d.group /\ c.stance # d.stance
           /\ NoGroup \notin {c.group, c.stance, d.stance}

\* what _quality_reasons finds wrong with a candidate by itself
Flawed(c, school) ==
  \/ c.reliability < MinReliability
  \/ school # NoSchool /\ c.school \notin {school, "multi", "not_applicable"}
  \/ ~ c.cited
  \/ ~ c.eligible

\* seeded fault: one good candidate speaks for all
QualityOfBest(candidates, school) ==
  \/ Cardinality({c.source : c \in ToSet(candidates)}) < MinDistinctSources
  \/ \A c \in ToSet(candidates) : Flawed(c, school)

QualityReason(candidates, school) ==
  \/ Cardinality({c.source : c \in ToSet(candidates)}) < MinDistinctSources
  \/ \E c \in ToSet(candidates) : Flawed(c, school)

BelowPartial(candidates) ==
  \/ TopScore(candidates) < MinPartialTop
  \/ Len(candidates) < MinPartialResults

BelowSufficient(candidates) ==
  \/ TopScore(candidates) < MinSufficientTop
  \/ SumOfScores(candidates) < Len(candidates) * MinSufficientAverage
  \/ Len(candidates) < MinSufficientResults

Status(candidates, school) ==
  IF candidates = <<>>                 THEN "INSUFFICIENT"
  ELSE IF Conflicting(candidates)      THEN "CONFLICTING"
  ELSE IF BelowPartial(candidates)     THEN "INSUFFICIENT"
  ELSE IF QualityReason(candidates, school) \/ BelowSufficient(candidates)
                                       THEN "PARTIALLY_SUFFICIENT"
                                       ELSE "SUFFICIENT"

-----------------------------------------------------------------------------
(* Properties of a sequence of candidates.                                 *)

Grade(status) ==
  CASE status = "INSUFFICIENT"         -> 0
    [] status = "PARTIALLY_SUFFICIENT" -> 1
    [] status = "SUFFICIENT"           -> 2

AtLeast(b, c) ==
  /\ b.score >= c.score /\ b.reliability >= c.reliability
  /\ c.cited => b.cited
  /\ c.eligible => b.eligible
  /\ b.source = c.source /\ b.school = c.school
  /\ b.signal = c.signal /\ b.group = c.group /\ b.stance = c.stance

\* A candidate that gets better never lowers the status: the thresholds for
\* top, average, count and quality do not work against each other.
BetterIsNoWorse(candidates, others, school) ==
  ~ Conflicting(candidates) =>
    \A i \in DOMAIN candidates : \A b \in others :
      AtLeast(b, candidates[i]) =>
        Grade(Status([candidates EXCEPT ![i] = b], school)) >= Grade(Status(candidates, school))

\* No further candidate hides a conflict or makes up for a flawed one.
FlawsStay(candidates, others, school) ==
  \A c \in others :
    LET status == Status(Append(candidates, c), school)
    IN  /\ Status(candidates, school) = "CONFLICTING" => status = "CONFLICTING"
        /\ (\E d \in ToSet(candidates) : Flawed(d, school)) => status # "SUFFICIENT"

=============================================================================
