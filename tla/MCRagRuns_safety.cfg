CONSTANTS
  Requests = {r1, r2, r3}
  Conversations = {c1}
  NoConversation = NoConversation
  Free = Free
  MaxCancels = 1
  MaxFaults = 1
SPECIFICATION Spec
SYMMETRY Symmetry
INVARIANTS
  TypeOK
  OneRunningPerConversation
  OrdinalsUnique
  AnswersOfAnsweredRuns
  DoneMeansSaved
  OrphansHaveACause
PROPERTY ImplementsTurnLog
