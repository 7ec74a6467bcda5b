CONSTANTS
  Routes = {"knowledge_base", "scoped", "system_direct", "clarification"}
  Questions = {q1, q2}
  MaxChunks = 2
  MaxCancels = 2
  MaxFaults = 1
SPECIFICATION FairSpec
INVARIANTS
  WireFollowsContract
  DoneTellsTheRun
  SearchesAreCollected
PROPERTIES
  ModelStreamsClose
  DeadlineEndsWork
