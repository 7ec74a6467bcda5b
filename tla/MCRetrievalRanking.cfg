CONSTANTS
  Chunks <- MCChunks
  Documents = {"a", "b"}
  Uploaded = {"a"}
  Contents = {"w", "x", "y", "z"}
  DocumentOf <- MCDocumentOf
  VersionOf <- MCVersionOf
  ContentOf <- MCContentOf
  Questions = 2
  MaxSimilarity = 2
  RecallBudget = 3
  RrfK = 60
  MaxChunksPerDocument = 2
  RerankCandidateLimit = 3
  ContextTopK = 2
  Unanswered = Unanswered
SPECIFICATION Spec
INVARIANTS
  FusionIsCorrect
  RerankKeepsTheSelection
  DisagreementsHaveACause
