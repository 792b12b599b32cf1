CONSTANTS
  Ids = {w1, w2, w3}
  Paths = {p1, p2}
  None = None
  MaxTalks = 4
  WritesFail = TRUE
SPECIFICATION Spec
INVARIANTS TypeOK AllOrNothing  
PROPERTIES KeepsCatalog
SYMMETRY Symmetry
CHECK_DEADLOCK FALSE
