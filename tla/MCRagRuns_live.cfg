CONSTANTS
  Requests = {r1, r2}
  Conversations = {c1, c2}
  NoConversation = NoConversation
  Free = Free
  MaxCancels = 1
  MaxFaults = 1
SPECIFICATION FairSpec
PROPERTIES
  EveryRequestEnds
  StreamedRunsSettle
