CONSTANTS
  inbox = inbox
  outbox = outbox
  NoDir = NoDir
  Dirs = {inbox, outbox}
  Extended = TRUE
  MaxEvents = 2
  BufferCap = 1
SPECIFICATION FairSpec
INVARIANT OneToken
INVARIANT StreamIsExact
PROPERTY EveryRequestEnds
PROPERTY EventuallyReported
CHECK_DEADLOCK FALSE
