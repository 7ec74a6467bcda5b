CONSTANTS
  Calls = {c1, c2, c3, c4}
  MaxCancels = 2
  MaxFailures = 1
SPECIFICATION FairGateSpec
INVARIANT ModelUsedByOne
PROPERTY EveryCallEnds
