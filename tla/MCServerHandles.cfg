CONSTANTS
  Ids = {w1, w2}
  Conns = {c1, c2}
  Main = main
  None = None
  MaxRequests = 3
  MaxLogs = 4
SPECIFICATION Spec
INVARIANTS HandlesStayValid
CHECK_DEADLOCK FALSE
