CONSTANTS
  Requests = {r1, r2, r3, r4, r5}
  RecentTurns = 1
  TriggerTurns = 2
  MaxFailures = 1
SPECIFICATION Spec
SYMMETRY Symmetry
INVARIANT SummaryIsExact
PROPERTIES
  BoundaryAdvances
  ContextIsAccountedFor
