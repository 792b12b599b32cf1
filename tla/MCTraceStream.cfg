SPECIFICATION Spec
CONSTANTS
  ThinkEnd <- End
  DsmlOpen <- Open
  DsmlClose <- Close
  Reserve = 2
  Models <- AllModels
  Skips = {1}
INVARIANTS SplitIsRight NoByteLost  PlainProseIsExact
CHECK_DEADLOCK FALSE
