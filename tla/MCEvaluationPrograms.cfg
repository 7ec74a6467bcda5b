CONSTANTS
  Dataset <- MCDataset
  DevelopmentIds <- MCDevelopmentIds
  ChallengeIds <- MCChallengeIds
  RagIds <- MCRagIds
  IntentL1 <- MCIntentL1
  BaselineFailures <- MCBaselineFailures
  FailureCases = 2
  GuardCases = 1
  Limits <- MCLimits
  HighConfidenceThreshold = 8
  AmbiguityMargin = 2
  Programs = {"staged", "candidate", "full"}
  Processes = {p1, p2}
  Experiments <- MCExperiments
  Replies <- MCReplies
  None = None
  MaxStarts <- MCMaxStarts
  MaxFaults = 2
  RagSamples <- MCRagSamples
  Required <- MCRequired
  TopK = 2
  Unit = 2
  Corpus <- MCCorpus
  Snapshots <- MCSnapshots
  Answers <- MCAnswers
  ContextTopK = 2
  SmokeCases <- MCSmokeCases
  MaxRuns = 2
  MaxMishaps = 2
SPECIFICATION Spec
SYMMETRY Symmetry
INVARIANTS
  AttemptsAreAccountedFor
  SpendingIsGated
  LeftoversHaveACause
  ReportsAreTrue
  ImportIsIdempotent
  RetrievalReportsAreTrue
PROPERTIES
  PaidSuccessesAreKept
CHECK_DEADLOCK FALSE
