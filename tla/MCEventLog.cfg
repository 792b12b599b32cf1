SPECIFICATION Spec
CONSTANTS
  Cap = 3
  TailSize = 4
  Sizes = {1, 2}
  SyncEvery = 2
  Radix = 2
  MaxEvents = 6
INVARIANTS
  TypeOK
  WindowConsecutive
  CursorUnique
  ReopenRestores
PROPERTIES
  WindowSpec
