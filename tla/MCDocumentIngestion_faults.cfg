CONSTANTS
  Uploads = {u1, u2}
  Deletions = {d1}
  SourceKeys = {key}
  Nothing = Nothing
  MaxCancels = 2
  MaxFaults = 1
SPECIFICATION FairSpec
INVARIANTS
  ReplyIsHonest
  BuildingOrphansHaveACause
PROPERTIES
  ImplementsDocumentIndex
  EveryCallEnds
