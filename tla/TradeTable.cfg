SPECIFICATION Spec
CONSTANTS
  MaxId = 3
  MaxRows = 3
INVARIANTS
  UniqueUnlessLoaded
  PlainRowsReturn
