SPECIFICATION FaultSpec
CONSTANTS
  Cap = 2
  TailSize = 3
  Sizes = {1, 2}
  SyncEvery = 2
  Radix = 2
  MaxEvents = 4
INVARIANTS
  CursorsDescribeRing
