CONSTANTS
  c = c
  d = d
  Clients = {c, d}
  History = 2
  Buffer = 1
  MaxEvents = 4
SPECIFICATION FairSpec
INVARIANT TypeOK
INVARIANT StreamAscends
INVARIANT NothingSkipped
PROPERTY FeedCatchesUp
CHECK_DEADLOCK FALSE
