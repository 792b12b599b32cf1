SPECIFICATION FairSpec
CONSTANTS
  Cap = 2
  Producers = {p1, p2}
  Subscribers = {s1}
  Published = 2
  MaxEvents = 4
  Cursors <- AllCursors
  Idle = Idle
INVARIANTS
  TypeOK
  NothingMissed
  AtMostOneCopyEachWay
  
PROPERTIES
  EventuallyDelivered
  EventuallyUnregistered
CHECK_DEADLOCK FALSE
