SPECIFICATION Spec
CONSTANTS
  Workspaces = {w1, w2}
  Callers = {c1, c2}
  None = None
  Operations = {"activate", "submit", "abort", "reset"}
  MaxSpawns = 2
  MaxCalls = 3
  ReadersLate = FALSE
SYMMETRY Symmetric
INVARIANTS
  TypeOK
  BindingMatchesChild
  PromptsInPlace
  StateTellsChild
  
  TurnEndsOnce
PROPERTIES
  KeepsAgent
CHECK_DEADLOCK FALSE
