SPECIFICATION Spec
CONSTANTS
  Cap = 2
  Producers = {p1, p2}
  Subscribers = {s1}
  Published = 2
  MaxEvents = 4
  Cursors <- AllCursors
  Idle = Idle
SYMMETRY Symmetric
INVARIANTS
  BroadcastToRegistered
CHECK_DEADLOCK FALSE
