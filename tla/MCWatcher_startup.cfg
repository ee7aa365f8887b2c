CONSTANTS
  a = a
  b = b
  outer = outer
  inner = inner
  NoPath = NoPath
  Paths = {b}
  Rules <- InPlace
  Capacity = 1
  Quiet = 1
  HiddenAttribute = FALSE
  MaxSends = 12
  Roots = {outer, inner}
  RootsOf <- Nested
  ScanOnStart = TRUE
  KindsKnown = TRUE
  PerRoot = TRUE
  OsCapacity = 2
  MaxChanges = 2
SPECIFICATION FairWatchSpec
PROPERTY StartUpEnds
CHECK_DEADLOCK FALSE
