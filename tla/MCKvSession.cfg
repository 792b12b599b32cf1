SPECIFICATION FairSpec
CONSTANTS
  Workspaces = {w1, w2}
  None = None
  MaxSpawns = 3
  MaxTurns = 2
  FaultSets = {{}, {"wait", "stop"}, {"stop", "tail"}}
INVARIANTS TypeOK    
 
CHECK_DEADLOCK FALSE
