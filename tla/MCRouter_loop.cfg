CONSTANTS
  a = a
  b = b
  NoPath = NoPath
  Paths = {a, b}
  Rules <- MoveThenCopy
  Capacity = 1
  Quiet = 1
  HiddenAttribute = TRUE
  MaxSends = 2
SPECIFICATION Spec
CONSTRAINT Bounded
INVARIANT TypeOK
INVARIANT SnapshotFresh
INVARIANT AtMostOneChainPerEvent
PROPERTY KnownKindReachesEveryRule
PROPERTY ImplementsDelivery
CHECK_DEADLOCK FALSE
