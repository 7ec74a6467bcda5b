CONSTANTS
  Uploads = {u1, u2, u3}
  Deletions = {d1}
  SourceKeys = {key}
  Nothing = Nothing
  MaxCancels = 1
  MaxFaults = 0
SPECIFICATION Spec
SYMMETRY Symmetry
INVARIANT CatalogIsConsistent
PROPERTY ImplementsDocumentIndex
