SPECIFICATION PipelineSpec
CONSTANTS
  q1 = q1
  q2 = q2
  key1 = key1
  NoKey = noKey
  noSchool = noSchool
  noGroup = noGroup
  noScore = noScore
  s1 = s1
  blank = blank
  missing = missing
  none = none
  Requests <- TwoRequests
  Keys <- OneKey
  KeyOf <- SharedKey
  MaxRetries = 1
  MaxRevisions = 1
  StrictVerifier = TRUE
  Chunks = {1, 2, 3}
  Signals <- Profiles
  Queries <- TwoPages
  MaxCandidates = 2
  RerankScores = {0, 500, 1000}
  Samples <- GradedSamples
  MaxSample = 2
  Tokens = {1, 2}
  Packs <- SomePacks
  Drafts <- SomeDrafts
  OtherClaims <- SecondClaims
  Inputs <- Given
  BatchSize = 2
  EmbeddingRetries = 1
  AdapterRetries = 2
  MaxLines = 4
INVARIANTS
  TypeOK
  CompletedIsGrounded
  ConflictNeverAnswered
  WorkIsBounded
  RetrievalIsKept
  EvidenceIsEarned
  CallsKeepTheirPlaces
PROPERTIES
  FirstAnswerWins
  KeepsAnswerTask
CHECK_DEADLOCK FALSE
