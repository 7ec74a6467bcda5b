CONSTANTS
  Requests = {r1, r2}
  Conversations = {c1}
  NoConversation = NoConversation
  Free = Free
  MaxCancels = 1
  MaxFaults = 0
SPECIFICATION FairSpec
PROPERTY EveryStartedRunSettles
