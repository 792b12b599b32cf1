SPECIFICATION FairSpec
CONSTANTS
  Workspaces = {w1, w2}
  Callers = {c1}
  None = None
  Operations = {"activate", "submit", "abort", "reset"}
  MaxSpawns = 1
  MaxCalls = 2
  ReadersLate = FALSE
PROPERTIES
  CrashNoticed
CHECK_DEADLOCK FALSE
