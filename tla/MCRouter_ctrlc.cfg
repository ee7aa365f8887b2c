CONSTANTS
  a = a
  b = b
  NoPath = NoPath
  Paths = {a}
  Rules <- OneRule
  Capacity = 2
  Quiet = 1
  HiddenAttribute = FALSE
  MaxSends = 1
SPECIFICATION FairSpec
PROPERTY CtrlCStops
CHECK_DEADLOCK FALSE
