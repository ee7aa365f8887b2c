CONSTANTS
  a = a
  b = b
  outer = outer
  inner = inner
  NoPath = NoPath
  Paths = {a, b}
  Rules <- InPlace
  Capacity = 1
  Quiet = 1
  HiddenAttribute = FALSE
  MaxSends = 12
  Roots = {outer, inner}
  RootsOf <- Nested
  ScanOnStart = TRUE
  KindsKnown = TRUE
  PerRoot = FALSE
  OsCapacity = 2
  MaxChanges = 1
SPECIFICATION FairSpecRoomAtB
INVARIANT NoFileMissed
INVARIANT ScanAddsOneRunPerRoot
PROPERTY ImplementsRouter
PROPERTY EventuallyProcessed
PROPERTY ScanEnds
CHECK_DEADLOCK FALSE
