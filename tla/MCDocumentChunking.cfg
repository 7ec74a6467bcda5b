CONSTANTS
  Sources <- MCSources
  MaxExtracted = 8
  MaxPages = 2
  MaxRows = 2
  TargetTokens = 4
  OverlapTokens = 2
  MaxGrowth = 2
SPECIFICATION Spec
INVARIANTS
  TokensAreCovered
  StructureIsKept
